---- MODULE Spec2Model ----
(***************************************************************************)
(* Heartbeat rPPG pipeline (RPPGSimple.cpp, opencv.cpp).                   *)
(*                                                                         *)
(* The frame pipeline RPPGSimple::processFrame is modelled as one action   *)
(* over the object's fields; cv::validate (the per-channel noise           *)
(* validator) is modelled as an operator and driven by a second            *)
(* specification.  Doubles are modelled as exact rationals <<n, d>> and    *)
(* std::numeric_limits<double>::max() as a distinguished sentinel value.   *)
(***************************************************************************)
EXTENDS Integers, Sequences, FiniteSets, TLC

(* ---------------- program constants (RPPGSimple.cpp) ------------------- *)
LOW_BPM == 42
HIGH_BPM == 240
SIGNAL_SIZE == 10
SEC_PER_MIN == 60
\* meanFilter(signalDetrended, signalMeaned, 3, fps/3): the divisor of fps
KernelDivisor == 3
\* meanFilter(signalDetrended, signalMeaned, 3, fps/3): the number of blurs
SmoothingPasses == 3
\* opencv.cpp, validate over channels: if (a.rows < 10) return result
MinRows == 10

(* ---------------- bounds of the model ---------------------------------- *)
\* largest timestamp a frame carries
MaxTime == 2
\* number of samples a run appends (frames that end with a valid face)
MaxSamples == 63
\* number of bins of the band, counted from its low end, that the peak of the
\* first estimate of a reporting interval is drawn from; the later estimates of
\* the interval peak at the lowest bin
MaxPeaks == 2
\* configurations the pipeline is constructed with (load's parameters)
\* timeBase is a double: seconds per unit of the timestamps, as a rational
TimeBases == {<<10, 1>>}
SamplingFrequencies == {10}
RescanIntervals == {20}
\* values the members no code initialises may hold when the first frame arrives
\* (load() assigns nothing): lastSamplingTime, lastScanTime and now
StartTimes == {0, 1}
\* the validator's channel: sample values 0..MaxValue, at most MaxRows buffered rows
MaxValue == 3
MaxRows == 6
\* the denoiser's windows: at most MaxWindow rows of one value per channel
MaxWindow == 4
Channels == 1 .. 2
Levels == 0 .. 1
\* the multi-channel validator: result[3] and flags[3], one entry per column;
\* calls are made with MinRows - 1 or MinRows buffered rows
Columns == 1 .. 3
CallRows == {MinRows - 1, MinRows}
\* values the read of diff.at<double>(-1, j), a place outside diff, may deliver
Junk == {0, 1}

VARIABLES
    timeBase, samplingFrequency, rescanInterval,
    time, lastScanTime, lastSamplingTime, valid, updateFlag, fps,
    g, t, jumps, bpms,
    bpmTimes, reports, appended, failed, smoothing,
    va, vb, vflag, vhist,
    dA, dJumps, dB, dA0, dpc,
    result, flags, lastCall

pvars == <<timeBase, samplingFrequency, rescanInterval,
           time, lastScanTime, lastSamplingTime, valid, updateFlag, fps,
           g, t, jumps, bpms, bpmTimes, reports, appended, failed, smoothing>>

vvars == <<va, vb, vflag, vhist>>

\* one call of denoise: the caller's matrix _a (dA0 as it was passed), _jumps,
\* the output _b, and where the call stands (ready, done, thrown)
dvars == <<dA, dJumps, dB, dA0, dpc>>

\* the multi-channel validate: its static result[3], the caller's flags[3], and
\* the last call (rows passed, flags before it, what the returned pointer shows)
mvars == <<result, flags, lastCall>>

vars == <<pvars, vvars, dvars, mvars>>

(* ---------------- exact arithmetic standing for double ------------------ *)
RECURSIVE GCD(_, _)
GCD(a, b) == IF b = 0 THEN a ELSE GCD(b, a % b)

Abs(x) == IF x < 0 THEN -x ELSE x

\* the rational n/d in lowest terms with a positive denominator
Rat(n, d) ==
    IF d = 0 THEN <<n, 0>>
    ELSE LET k == GCD(Abs(n), Abs(d))
             s == IF d < 0 THEN -1 ELSE 1
         IN <<s * (n \div k), s * (d \div k)>>

RatLE(x, y) == x[1] * y[2] <= y[1] * x[2]
RatLT(x, y) == x[1] * y[2] < y[1] * x[2]
RatAdd(x, y) == Rat(x[1] * y[2] + y[1] * x[2], x[2] * y[2])
RatMul(x, y) == Rat(x[1] * y[1], x[2] * y[2])
RatDiv(x, y) == Rat(x[1] * y[2], x[2] * y[1])
\* (int) of a non-negative double
Trunc(x) == x[1] \div x[2]

\* a double: the sentinel std::numeric_limits<double>::max(), or a rational
DblMax == [sentinel |-> TRUE, q |-> <<0, 1>>]
Dbl(n, d) == [sentinel |-> FALSE, q |-> Rat(n, d)]

Min(a, b) == IF a < b THEN a ELSE b

\* (t2 - t1) * timeBase: the long difference dt times the double tb, in seconds
Secs(dt, tb) == RatMul(<<dt, 1>>, tb)
\* x >= k and x < k for a double x and an int k
AtLeast(x, k) == RatLE(<<k, 1>>, x)
Below(x, k) == RatLT(x, <<k, 1>>)
\* rows / diff for an int rows and a double diff
Per(rows, diff) == [sentinel |-> FALSE, q |-> RatDiv(<<rows, 1>>, diff)]

(* ---------------- opencv.cpp: common functions -------------------------- *)
\* getFps dividing the number of intervals, not of samples, by the elapsed time
getFps_CountMinusOne(tt, tb) ==
    IF tt = <<>> THEN Dbl(1, 1)
    ELSE IF Len(tt) = 1 THEN DblMax
    ELSE LET diff == Secs(tt[Len(tt)] - tt[1], tb)
         IN IF diff[1] = 0 THEN DblMax ELSE Per(Len(tt) - 1, diff)

\* getFps without the test for zero elapsed time
getFps_NoZeroGuard(tt, tb) ==
    IF tt = <<>> THEN Dbl(1, 1)
    ELSE IF Len(tt) = 1 THEN DblMax
    ELSE Per(Len(tt), Secs(tt[Len(tt)] - tt[1], tb))

\* double getFps(Mat &t, const double timeBase)
getFps(tt, tb) ==
    IF tt = <<>> THEN Dbl(1, 1)
    ELSE IF Len(tt) = 1 THEN DblMax
    ELSE LET diff == Secs(tt[Len(tt)] - tt[1], tb)
         IN IF diff[1] = 0 THEN DblMax ELSE Per(Len(tt), diff)

\* push without the copy: only the last row is popped
push_DropLast(m) == SubSeq(m, 1, Len(m) - 1)

\* void push(Mat &m): rows 1..length-1 move to rows 0..length-2, last row popped
push(m) == Tail(m)

\* Mat::pop_back(nelems) as fewer rows are asked for than the matrix holds
popBack_One(m, nelems) == SubSeq(m, 1, Len(m) - 1)

\* bpms.pop_back(bpms.rows): Mat::pop_back(nelems) removes the last nelems rows
popBack(m, nelems) == SubSeq(m, 1, Len(m) - nelems)

(* ---------------- opencv.cpp: denoise ----------------------------------- *)
\* A matrix is a sequence of rows, a row a function of the channel (column).
\* Row i of the code (from 0) is row i + 1 here.

\* subtract(a.rowRange(1, a.rows), a.rowRange(0, a.rows-1), diff)
RowDiff(a) ==
    [k \in 1 .. (Len(a) - 1) |-> [c \in DOMAIN a[1] |-> a[k + 1][c] - a[k][c]]]

\* jumps.rowRange(jumps.rows-a.rows, jumps.rows) when the row counts differ
TrimJumps(a, jj) ==
    IF Len(jj) # Len(a)
    THEN SubSeq(jj, Len(jj) - Len(a) + 1, Len(jj))
    ELSE jj

\* diff.at<double>(i-1, j): a row of diff, or for the first row of the window
\* the place before diff's first row, which holds junk
DiffAt(diff, junk, i, c) == IF i = 1 THEN junk[c] ELSE diff[i - 1][c]

\* the loop's body with the mask starting one row late
DenoiseRow_MaskAfter(a, diff, junk, i) ==
    [r \in 1 .. Len(a) |->
        [c \in DOMAIN a[1] |->
            IF r >= i + 1 THEN a[r][c] - DiffAt(diff, junk, i, c) ELSE a[r][c]]]

\* the loop's body for a flagged row: mask.rowRange(i, mask.rows).setTo(ONE);
\* add(a.col(j), -diff.at<double>(i-1, j), a.col(j), mask.col(j)) for every j
DenoiseRow(a, diff, junk, i) ==
    [r \in 1 .. Len(a) |->
        [c \in DOMAIN a[1] |->
            IF r >= i THEN a[r][c] - DiffAt(diff, junk, i, c) ELSE a[r][c]]]

RECURSIVE DenoiseLoop_MaskAfter(_, _, _, _, _)
DenoiseLoop_MaskAfter(a, diff, jj, junk, i) ==
    IF i > Len(jj) THEN a
    ELSE DenoiseLoop_MaskAfter(
             IF jj[i] THEN DenoiseRow_MaskAfter(a, diff, junk, i) ELSE a,
             diff, jj, junk, i + 1)

\* for (int i = 0; i < jumps.rows; i++) if (jumps.at<bool>(i, 0)) { ... }
\* diff is computed once, before the loop, from the matrix as it was passed
RECURSIVE DenoiseLoop(_, _, _, _, _)
DenoiseLoop(a, diff, jj, junk, i) ==
    IF i > Len(jj) THEN a
    ELSE DenoiseLoop(IF jj[i] THEN DenoiseRow(a, diff, junk, i) ELSE a,
                     diff, jj, junk, i + 1)

\* denoise whose mask leaves the flagged row itself out
denoise_MaskAfter(a, jj, junk) ==
    [a |-> a,
     b |-> DenoiseLoop_MaskAfter(a, RowDiff(a), TrimJumps(a, jj), junk, 1)]

\* denoise working on the caller's matrix instead of a clone of it
denoise_NoClone(a, jj, junk) ==
    LET out == DenoiseLoop(a, RowDiff(a), TrimJumps(a, jj), junk, 1)
    IN [a |-> out, b |-> out]

\* void denoise(InputArray _a, InputArray _jumps, OutputArray _b): the caller's
\* matrix after the call (the work is done on a clone) and the output
denoise(a, jj, junk) ==
    [a |-> a,
     b |-> DenoiseLoop(a, RowDiff(a), TrimJumps(a, jj), junk, 1)]

\* whether the call throws.  With the first row flagged the loop reads
\* diff.at<double>(-1, j), outside the matrix: the read delivers junk or the
\* call ends there (a checked build asserts the index; a diff of no rows has
\* no data to read from).  No other path of denoise throws.
DenoiseThrows(a, jj) ==
    IF ~TrimJumps(a, jj)[1] THEN {FALSE}
    ELSE IF Len(a) = 1 THEN {TRUE}
    ELSE BOOLEAN

\* what the out-of-matrix read may deliver, per column
JunkReads(a, jj) ==
    IF TrimJumps(a, jj)[1] THEN [DOMAIN a[1] -> Junk]
    ELSE {[c \in DOMAIN a[1] |-> 0]}

(* ---------------- opencv.cpp: movingAverage ----------------------------- *)
\* void movingAverage(_a, _b, n, s): n times cv::blur(b, b, Size(s, s)); the
\* number of blurs that return and whether one threw (cv::blur rejects a
\* kernel without a cell, s < 1, in its first call)
movingAverage(n, s) ==
    IF s < 1 THEN [blurs |-> 0, thrown |-> TRUE]
    ELSE [blurs |-> n, thrown |-> FALSE]

(* ---------------- RPPGSimple.cpp: processFrame -------------------------- *)
\* g.rows > fps * SIGNAL_SIZE
Exceeds(rows, f) ==
    /\ ~f.sentinel
    /\ RatLT(RatMul(f.q, <<SIGNAL_SIZE, 1>>), <<rows, 1>>)

\* the eviction loop without push(jumps)
RECURSIVE Evict_KeepFlags(_, _, _, _)
Evict_KeepFlags(gg, tt, jj, f) ==
    IF gg # <<>> /\ Exceeds(Len(gg), f)
    THEN Evict_KeepFlags(push(gg), push(tt), jj, f)
    ELSE [g |-> gg, t |-> tt, jumps |-> jj]

\* while (g.rows > fps * SIGNAL_SIZE) { push(g); push(t); push(jumps); }
\* fps is the value read before the loop; the loop does not recompute it
RECURSIVE Evict(_, _, _, _)
Evict(gg, tt, jj, f) ==
    IF gg # <<>> /\ Exceeds(Len(gg), f)
    THEN Evict(push(gg), push(tt), push(jj), f)
    ELSE [g |-> gg, t |-> tt, jumps |-> jj]

\* g.rows / fps >= SIGNAL_SIZE
Ready(rows, f) ==
    /\ ~f.sentinel
    /\ f.q[1] # 0
    /\ RatLE(<<SIGNAL_SIZE, 1>>, RatDiv(<<rows, 1>>, f.q))

\* the int s that movingAverage receives for the double fps/3
KernelSize(f) == Trunc(RatDiv(f.q, <<KernelDivisor, 1>>))

\* the smoothing step of a frame: whether meanFilter was called, the kernel
\* size it was given and the number of blurs that returned
NoSmoothing == [called |-> FALSE, s |-> 0, blurs |-> 0]

(* ---------------- RPPGSimple.cpp: estimateHeartrate --------------------- *)
\* (int)(total * LOW_BPM / SEC_PER_MIN / fps): int division, then double division
BandLow(total, f) ==
    Trunc(RatDiv(<<(total * LOW_BPM) \div SEC_PER_MIN, 1>>, f.q))
BandHigh(total, f) ==
    Trunc(RatDiv(<<(total * HIGH_BPM) \div SEC_PER_MIN, 1>>, f.q))

\* rows of bandMask set to ONE: rowRange(min(low, total), min(high, total))
Band(total, f) ==
    Min(BandLow(total, f), total) .. (Min(BandHigh(total, f), total) - 1)

\* pmax.y of minMaxLoc under bandMask: a row of the band (the spectrum's values
\* decide which), or -1 when no row is selected
PeakRows(total, f, held) ==
    IF Band(total, f) = {} THEN {-1}
    ELSE LET lo == Min(BandLow(total, f), total)
             hi == Min(BandHigh(total, f), total)
         IN lo .. (Min(lo + (IF held = 0 THEN MaxPeaks ELSE 1), hi) - 1)

\* double bpm = pmax.y * fps / total * SEC_PER_MIN
Bpm(p, f, total) ==
    RatMul(RatDiv(RatMul(<<p, 1>>, f.q), <<total, 1>>), <<SEC_PER_MIN, 1>>)

RECURSIVE RatSum(_)
RatSum(s) == IF s = <<>> THEN <<0, 1>> ELSE RatAdd(Head(s), RatSum(Tail(s)))

\* cv::sort(bpms, bpms, SORT_EVERY_COLUMN): ascending
SortBpms(s) == SortSeq(s, RatLT)
\* the middle element of the sorted list in place of the average
MeanBpm_Median(s) == SortSeq(s, RatLT)[(Len(s) + 1) \div 2]

\* mean(bpms)(0)
MeanBpm(s) == RatDiv(RatSum(s), <<Len(s), 1>>)
\* bpms.at<double>(0, 0) and bpms.at<double>(bpms.rows-1, 0) of the sorted list
MinBpm(s) == SortBpms(s)[1]
MaxBpm(s) == SortBpms(s)[Len(s)]

\* the report test without the subtraction of lastSamplingTime
ReportDue_NoLast(tm, last, tb, sf) == AtLeast(Secs(tm, tb), sf)

\* (time - lastSamplingTime) * timeBase >= samplingFrequency
ReportDue(tm, last, tb, sf) == AtLeast(Secs(tm - last, tb), sf)

\* estimateHeartrate with the report test ahead of the estimate: the report is
\* made of what the accumulator held when the frame began
EstimateHeartrate_ReportBeforeEstimate(tm, f, total) ==
    \E p \in PeakRows(total, f, Len(bpms)) :
        IF ReportDue(tm, lastSamplingTime, timeBase, samplingFrequency)
        THEN /\ lastSamplingTime' = tm
             /\ \E now \in StartTimes :
                    reports' = Append(reports,
                        [frame |-> Len(appended) + 1, time |-> tm,
                         now |-> now, of |-> bpms,
                         mean |-> IF bpms = <<>> THEN <<0, 1>> ELSE MeanBpm(bpms),
                         min |-> IF bpms = <<>> THEN <<0, 1>> ELSE MinBpm(bpms),
                         max |-> IF bpms = <<>> THEN <<0, 1>> ELSE MaxBpm(bpms)])
             /\ bpms' = <<Bpm(p, f, total)>>
             /\ bpmTimes' = <<tm>>
        ELSE /\ bpms' = Append(bpms, Bpm(p, f, total))
             /\ bpmTimes' = Append(bpmTimes, tm)
             /\ UNCHANGED <<lastSamplingTime, reports>>

\* estimateHeartrate(), called with the window of `total` rows at rate f.
\* The callback's first argument is the member now, which no statement
\* assigns: the read delivers any value.
EstimateHeartrate(tm, f, total) ==
    \E p \in PeakRows(total, f, Len(bpms)) :
        LET acc == IF total > 0 THEN Append(bpms, Bpm(p, f, total)) ELSE bpms
            accTimes == IF total > 0 THEN Append(bpmTimes, tm) ELSE bpmTimes
        IN IF ReportDue(tm, lastSamplingTime, timeBase, samplingFrequency)
           THEN /\ lastSamplingTime' = tm
                /\ \E now \in StartTimes :
                       \* callback(now, meanBpm, minBpm, maxBpm)
                       reports' = Append(reports,
                           [frame |-> Len(appended) + 1, time |-> tm,
                            now |-> now, of |-> acc,
                            mean |-> MeanBpm(acc), min |-> MinBpm(acc),
                            max |-> MaxBpm(acc)])
                /\ bpms' = popBack(SortBpms(acc), Len(acc))
                /\ bpmTimes' = popBack(accTimes, Len(accTimes))
           ELSE /\ bpms' = acc
                /\ bpmTimes' = accTimes
                /\ UNCHANGED <<lastSamplingTime, reports>>

\* the body of `if (valid) { ... }` in processFrame; flag is updateFlag as the
\* scan step left it
ValidFrame(tm, flag) ==
    LET fps0 == getFps(t, timeBase)
        ev == Evict(g, t, jumps, fps0)
        g1 == Append(ev.g, Len(appended) + 1)
        jumps1 == Append(ev.jumps, flag)
        t1 == Append(ev.t, tm)
        fps1 == getFps(t1, timeBase)
    IN /\ g' = g1
       /\ jumps' = jumps1
       /\ t' = t1
       /\ fps' = fps1
       /\ updateFlag' = FALSE
       /\ appended' = Append(appended, [v |-> Len(appended) + 1, t |-> tm, j |-> flag])
       /\ IF Ready(Len(g1), fps1)
          THEN \* extractSignal_den_detr_mean(), then estimateHeartrate()
               \E thrown \in DenoiseThrows(g1, jumps1) :
                   IF thrown
                   THEN \* the denoiser's read outside diff ends the call
                        /\ failed' = TRUE
                        /\ smoothing' = NoSmoothing
                        /\ UNCHANGED <<bpms, bpmTimes, lastSamplingTime, reports>>
                   ELSE LET s == KernelSize(fps1)
                            ma == movingAverage(SmoothingPasses, s)
                        IN /\ smoothing' =
                                  [called |-> TRUE, s |-> s, blurs |-> ma.blurs]
                           /\ IF ma.thrown
                              THEN \* cv::blur throws out of processFrame
                                   /\ failed' = TRUE
                                   /\ UNCHANGED <<bpms, bpmTimes,
                                                  lastSamplingTime, reports>>
                              ELSE /\ failed' = FALSE
                                   /\ EstimateHeartrate(tm, fps1, Len(g1))
          ELSE /\ smoothing' = NoSmoothing
               /\ UNCHANGED <<bpms, bpmTimes, lastSamplingTime, reports, failed>>

\* a frame without a face that drops the window
NoFaceFrame_ClearsWindow(flag) ==
    /\ updateFlag' = flag
    /\ smoothing' = NoSmoothing
    /\ g' = <<>>
    /\ t' = <<>>
    /\ jumps' = <<>>
    /\ UNCHANGED <<fps, bpms, bpmTimes, lastSamplingTime, reports, appended,
                   failed>>

\* processFrame when `if (valid)` fails: the call returns, nothing but what the
\* scan step assigned has changed
NoFaceFrame(flag) ==
    /\ updateFlag' = flag
    /\ smoothing' = NoSmoothing
    /\ UNCHANGED <<fps, g, t, jumps, bpms, bpmTimes,
                   lastSamplingTime, reports, appended, failed>>

\* void RPPGSimple::processFrame(frameRGB, frameGray, time); found is what
\* detectFace would set valid to (boxes.size() > 0)
\* Frames carry non-decreasing timestamps.  Once a call has thrown (failed) no
\* further frame is processed.  The value appended to g stands for the frame's
\* green mean: the ordinal of the sample, distinct for every sample.
ProcessFrame(tm, found) ==
    /\ ~failed
    /\ LET rescan ==
               valid /\ AtLeast(Secs(tm - lastScanTime, timeBase), rescanInterval)
           scan == ~valid \/ rescan
           valid1 == IF scan THEN found ELSE valid
           flag1 == IF rescan THEN TRUE ELSE updateFlag
       IN /\ scan \/ found
          /\ time' = tm
          /\ lastScanTime' = IF scan THEN tm ELSE lastScanTime
          /\ valid' = valid1
          /\ IF valid1
             THEN ValidFrame(tm, flag1)
             ELSE NoFaceFrame(flag1)
    /\ UNCHANGED <<timeBase, samplingFrequency, rescanInterval>>
    /\ UNCHANGED vvars
    /\ UNCHANGED dvars
    /\ UNCHANGED mvars

(* ---------------- opencv.cpp: validate (single channel) ------------------ *)
\* subtract(a.rowRange(1, a.rows), a.rowRange(0, a.rows-1), diff)
Diff(a) == [i \in 1 .. (Len(a) - 1) |-> a[i + 1] - a[i]]

RECURSIVE SeqSum(_)
SeqSum(s) == IF s = <<>> THEN 0 ELSE Head(s) + SeqSum(Tail(s))

\* abs(diff.at<double>(diff.rows-1)) > k * stddev_diff[0], where meanStdDev runs
\* over diff under a mask that leaves the last row out.  With n rows selected,
\* stddev^2 = (n*sum(x^2) - sum(x)^2) / n^2, and 0 when none is selected, so the
\* comparison of the two non-negative sides is made on their squares.
DevExceeds(a, k) ==
    LET diff == Diff(a)
        d == diff[Len(diff)]
        rest == SubSeq(diff, 1, Len(diff) - 1)
        n == Len(rest)
        sq == [i \in 1 .. n |-> rest[i] * rest[i]]
        varN2 == n * SeqSum(sq) - SeqSum(rest) * SeqSum(rest)
    IN IF n = 0 THEN d * d > 0
       ELSE d * d * n * n > k * k * varN2

\* validate leaving the flag as it was in the "still noise" branch
validate_StillNoiseKeepsFlag(a, b, flag) ==
    IF b[Len(b)]
    THEN IF DevExceeds(a, 2)
         THEN IF flag
              THEN [result |-> FALSE, flag |-> FALSE]
              ELSE [result |-> TRUE, flag |-> TRUE]
         ELSE [result |-> TRUE, flag |-> FALSE]
    ELSE IF DevExceeds(a, 1)
         THEN [result |-> FALSE, flag |-> flag]
         ELSE IF flag
              THEN [result |-> TRUE, flag |-> FALSE]
              ELSE [result |-> FALSE, flag |-> TRUE]

\* validate rejecting on the first large deviation, without the tentative step
validate_NoDebounce(a, b, flag) ==
    IF b[Len(b)]
    THEN IF DevExceeds(a, 2)
         THEN [result |-> FALSE, flag |-> FALSE]
         ELSE [result |-> TRUE, flag |-> FALSE]
    ELSE IF DevExceeds(a, 1)
         THEN [result |-> FALSE, flag |-> FALSE]
         ELSE IF flag
              THEN [result |-> TRUE, flag |-> FALSE]
              ELSE [result |-> FALSE, flag |-> TRUE]

\* validate accepting on the first small deviation after noise
validate_NoRecoveryWait(a, b, flag) ==
    IF b[Len(b)]
    THEN IF DevExceeds(a, 2)
         THEN IF flag
              THEN [result |-> FALSE, flag |-> FALSE]
              ELSE [result |-> TRUE, flag |-> TRUE]
         ELSE [result |-> TRUE, flag |-> FALSE]
    ELSE IF DevExceeds(a, 1)
         THEN [result |-> FALSE, flag |-> FALSE]
         ELSE [result |-> TRUE, flag |-> FALSE]

\* bool validate(InputArray _a, InputArray _b, bool &flag): the value returned
\* and the value flag is left with
validate(a, b, flag) ==
    IF b[Len(b)]
    THEN IF DevExceeds(a, 2)
         THEN IF flag
              THEN [result |-> FALSE, flag |-> FALSE]
              ELSE [result |-> TRUE, flag |-> TRUE]
         ELSE [result |-> TRUE, flag |-> FALSE]
    ELSE IF DevExceeds(a, 1)
         THEN [result |-> FALSE, flag |-> FALSE]
         ELSE IF flag
              THEN [result |-> TRUE, flag |-> FALSE]
              ELSE [result |-> FALSE, flag |-> TRUE]

\* one validation of the channel: the new sample x is buffered, validate runs on
\* the window with the classifications so far, and its result becomes the
\* classification of x, i.e. the next call's b.at<bool>(b.rows-1, 0)
Validate(x) ==
    /\ Len(va) < MaxRows
    /\ LET a == Append(va, x)
           r == validate(a, vb, vflag)
       IN /\ va' = a
          /\ vb' = Append(vb, r.result)
          /\ vflag' = r.flag
          /\ vhist' = Append(vhist,
                 [prev |-> vb[Len(vb)], flagIn |-> vflag, a |-> a,
                  result |-> r.result, flagOut |-> r.flag])
    /\ UNCHANGED pvars
    /\ UNCHANGED dvars
    /\ UNCHANGED mvars

(* ---------------- opencv.cpp: validate (over the channels) --------------- *)
\* a column of a: rows - 1 equal samples, then a last sample that is x above them
ColumnOf(rows, x) == [i \in 1 .. rows |-> IF i = rows THEN x ELSE 0]
\* a column of b: the classifications of the samples before the last one, all
\* accept but the latest, which is prev
ClassesOf(rows, prev) == [i \in 1 .. (rows - 1) |-> IF i = rows - 1 THEN prev ELSE TRUE]

\* bool * validate(InputArray _a, InputArray _b, bool flags[]): what the static
\* result and flags hold after a call with a of `rows` rows, whose column c ends
\* with a step x[c] and was classified prev[c] before.  The pointer returned is
\* to result itself.
validateAll(rows, x, prev, res, fl) ==
    IF rows < MinRows
    THEN [result |-> res, flags |-> fl]
    ELSE LET r == [c \in Columns |->
                      validate(ColumnOf(rows, x[c]), ClassesOf(rows, prev[c]), fl[c])]
         IN [result |-> [c \in Columns |-> r[c].result],
             flags |-> [c \in Columns |-> r[c].flag]]

\* one call of the multi-channel validate
ValidateAll(rows, x, prev) ==
    /\ LET r == validateAll(rows, x, prev, result, flags)
       IN /\ result' = r.result
          /\ flags' = r.flags
          /\ lastCall' = [called |-> TRUE, rows |-> rows, flagsIn |-> flags,
                          returned |-> r.result]
    /\ UNCHANGED pvars
    /\ UNCHANGED vvars
    /\ UNCHANGED dvars

(* ---------------- the pipeline's specification --------------------------- *)
\* no validation has run
ValidatorIdle ==
    /\ va = <<>>
    /\ vb = <<>>
    /\ vflag = FALSE
    /\ vhist = <<>>

\* denoise has not been called
DenoiserIdle ==
    /\ dA = <<>>
    /\ dJumps = <<>>
    /\ dB = <<>>
    /\ dA0 = <<>>
    /\ dpc = "idle"

\* the multi-channel validate has not been called: result as its initialiser
\* {true, true, true} leaves it, no flag pending
ValidateAllIdle ==
    /\ result = [c \in Columns |-> TRUE]
    /\ flags = [c \in Columns |-> FALSE]
    /\ lastCall = [called |-> FALSE]

Init ==
    /\ ValidatorIdle
    /\ DenoiserIdle
    /\ ValidateAllIdle
    /\ timeBase \in TimeBases
    /\ samplingFrequency \in SamplingFrequencies
    /\ rescanInterval \in RescanIntervals
    /\ time = 0
    /\ valid \in BOOLEAN
    /\ updateFlag \in BOOLEAN
    /\ lastSamplingTime \in StartTimes
    \* lastScanTime is assigned before it is read unless valid starts true
    /\ lastScanTime \in (IF valid THEN StartTimes ELSE {0})
    /\ fps = Dbl(0, 1)
    /\ g = <<>>
    /\ t = <<>>
    /\ jumps = <<>>
    /\ bpms = <<>>
    /\ bpmTimes = <<>>
    /\ reports = <<>>
    /\ appended = <<>>
    /\ failed = FALSE
    /\ smoothing = NoSmoothing

\* any frame with a timestamp up to MaxTime, until MaxSamples samples were taken
Next ==
    \E tm \in time .. MaxTime, found \in BOOLEAN :
        /\ ProcessFrame(tm, found)
        /\ Len(appended') <= MaxSamples

Spec == Init /\ [][Next]_vars

(* ---------------- the validator's specification -------------------------- *)
\* the pipeline as constructed, no frame processed
PipelineIdle ==
    /\ timeBase \in TimeBases
    /\ samplingFrequency \in SamplingFrequencies
    /\ rescanInterval \in RescanIntervals
    /\ time = 0
    /\ valid = FALSE
    /\ updateFlag = FALSE
    /\ lastSamplingTime = 0
    /\ lastScanTime = 0
    /\ fps = Dbl(0, 1)
    /\ g = <<>>
    /\ t = <<>>
    /\ jumps = <<>>
    /\ bpms = <<>>
    /\ bpmTimes = <<>>
    /\ reports = <<>>
    /\ appended = <<>>
    /\ failed = FALSE
    /\ smoothing = NoSmoothing

\* a channel holding two samples, the later one classified accept or reject,
\* with the pending flag clear
InitValidate ==
    /\ PipelineIdle
    /\ DenoiserIdle
    /\ ValidateAllIdle
    /\ va \in [1 .. 2 -> 0 .. MaxValue]
    /\ vb \in {<<TRUE>>, <<FALSE>>}
    /\ vflag = FALSE
    /\ vhist = <<>>

NextValidate == \E x \in 0 .. MaxValue : Validate(x)

SpecValidate == InitValidate /\ [][NextValidate]_vars

(* ---------------- a steady stream of frames ------------------------------ *)
\* frames k = 0 .. 299 of a 30 Hz stream: timestamps count thirtieths of a
\* second (timeBase = 1/30), every frame shows a face
ScenarioFrames == 0 .. 299
ScenarioTimeBase == <<1, 30>>

\* the next frame of the stream; every frame so far has appended a sample
ScenarioFrame ==
    /\ Len(appended) \in ScenarioFrames
    /\ ProcessFrame(Len(appended), TRUE)

\* the pipeline before the first frame, no resync pending
InitScenario ==
    /\ ValidatorIdle
    /\ DenoiserIdle
    /\ ValidateAllIdle
    /\ timeBase = ScenarioTimeBase
    /\ samplingFrequency \in SamplingFrequencies
    /\ rescanInterval \in RescanIntervals
    /\ time = 0
    /\ valid \in BOOLEAN
    /\ updateFlag = FALSE
    /\ lastSamplingTime \in StartTimes
    /\ lastScanTime = 0
    /\ fps = Dbl(0, 1)
    /\ g = <<>>
    /\ t = <<>>
    /\ jumps = <<>>
    /\ bpms = <<>>
    /\ bpmTimes = <<>>
    /\ reports = <<>>
    /\ appended = <<>>
    /\ failed = FALSE
    /\ smoothing = NoSmoothing

NextScenario == ScenarioFrame

SpecScenario == InitScenario /\ [][NextScenario]_vars

(* ---------------- the denoiser's specification --------------------------- *)
\* one call of denoise on the window it was handed
Denoise ==
    /\ dpc = "ready"
    /\ \E thrown \in DenoiseThrows(dA, dJumps), junk \in JunkReads(dA, dJumps) :
           IF thrown
           THEN /\ dpc' = "thrown"
                /\ UNCHANGED <<dA, dB>>
           ELSE LET r == denoise(dA, dJumps, junk)
                IN /\ dA' = r.a
                   /\ dB' = r.b
                   /\ dpc' = "done"
    /\ UNCHANGED <<dA0, dJumps>>
    /\ UNCHANGED pvars
    /\ UNCHANGED vvars
    /\ UNCHANGED mvars

\* a window of 1..MaxWindow rows with a flag per row, as processFrame keeps
\* signal and jumps
InitDenoise ==
    /\ PipelineIdle
    /\ ValidatorIdle
    /\ ValidateAllIdle
    /\ \E n \in 1 .. MaxWindow :
           /\ dA \in [1 .. n -> [Channels -> Levels]]
           /\ dJumps \in [1 .. n -> BOOLEAN]
    /\ dA0 = dA
    /\ dB = <<>>
    /\ dpc = "ready"

NextDenoise == Denoise

SpecDenoise == InitDenoise /\ [][NextDenoise]_vars

(* ---------------- the multi-channel validator's specification ------------ *)
InitValidateAll ==
    /\ PipelineIdle
    /\ ValidatorIdle
    /\ DenoiserIdle
    /\ ValidateAllIdle

\* calls with short and with long enough buffers, each column ending flat or
\* with a step, its previous sample classified either way
NextValidateAll ==
    \E rows \in CallRows, x \in [Columns -> 0 .. 1], prev \in [Columns -> BOOLEAN] :
        ValidateAll(rows, x, prev)

SpecValidateAll == InitValidateAll /\ [][NextValidateAll]_vars

(* ======================= properties ===================================== *)
Last(s) == s[Len(s)]
\* the least integer >= the positive rational x
Ceil(x) == (x[1] + x[2] - 1) \div x[2]
Range(s) == {s[i] : i \in 1 .. Len(s)}

(* C1: after each processFrame call that returns with a valid face, the     *)
(* number of buffered samples is at most ceil(sampleRate x 10), sampleRate  *)
(* being the rate over the buffer as it stands after that call's append.    *)
C1_BufferBounded ==
    (~failed /\ t # <<>>) =>
        LET rate == getFps(t, timeBase)
        IN rate.sentinel \/ Len(g) <= Ceil(RatMul(rate.q, <<SIGNAL_SIZE, 1>>))

\* |d| > 2 sigma and |d| > sigma as the validation recorded in h saw them
Big2(h) == DevExceeds(h.a, 2)
Big1(h) == DevExceeds(h.a, 1)

(* C2: every validation follows the six-row table: accepted, |d| <= 2s ->    *)
(* flag clear, accept; accepted, |d| > 2s, flag clear -> flag set, accept;    *)
(* accepted, |d| > 2s, flag set -> flag clear, reject; rejected, |d| > s ->   *)
(* flag clear, reject; rejected, |d| <= s, flag clear -> flag set, reject;    *)
(* rejected, |d| <= s, flag set -> flag clear, accept.                        *)
C2_TransitionTable ==
    \A i \in 1 .. Len(vhist) :
        LET h == vhist[i]
        IN /\ (h.prev /\ ~Big2(h)) => (~h.flagOut /\ h.result)
           /\ (h.prev /\ Big2(h) /\ ~h.flagIn) => (h.flagOut /\ h.result)
           /\ (h.prev /\ Big2(h) /\ h.flagIn) => (~h.flagOut /\ ~h.result)
           /\ (~h.prev /\ Big1(h)) => (~h.flagOut /\ ~h.result)
           /\ (~h.prev /\ ~Big1(h) /\ ~h.flagIn) => (h.flagOut /\ ~h.result)
           /\ (~h.prev /\ ~Big1(h) /\ h.flagIn) => (~h.flagOut /\ h.result)

\* a run through confirmed noise and confirmed recovery, the flag set both times,
\* and a later large deviation in the rejected state
C2_BothConfirmations ==
    /\ \E i \in 1 .. Len(vhist) :
           vhist[i].prev /\ vhist[i].flagIn /\ ~vhist[i].result
    /\ \E i \in 1 .. Len(vhist) :
           ~vhist[i].prev /\ vhist[i].flagIn /\ vhist[i].result

(* C3: with classifications fed back, a deviation > 2 sigma met in the        *)
(* accepted state with the flag clear and followed by a deviation <= 2 sigma  *)
(* is classified accept on both frames; a sample is rejected after an         *)
(* accepted one only if the validation before it also saw > 2 sigma.          *)
C3_Hysteresis ==
    /\ \A i \in 1 .. (Len(vhist) - 1) :
           vhist[i + 1].prev = vhist[i].result
    /\ \A i \in 1 .. (Len(vhist) - 1) :
           (vhist[i].prev /\ ~vhist[i].flagIn /\ Big2(vhist[i]) /\ ~Big2(vhist[i + 1]))
               => (vhist[i].result /\ vhist[i + 1].result)
    /\ \A i \in 1 .. Len(vhist) :
           (vhist[i].prev /\ ~vhist[i].result)
               => (i > 1 /\ Big2(vhist[i - 1]) /\ vhist[i - 1].prev /\ Big2(vhist[i]))

\* a single outlier passed as accept, accept, and a later outlier pair rejected
C3_OutlierThenStable ==
    /\ \E i \in 1 .. (Len(vhist) - 1) :
           vhist[i].prev /\ ~vhist[i].flagIn /\ Big2(vhist[i]) /\ ~Big2(vhist[i + 1])
    /\ \E i \in 1 .. Len(vhist) : vhist[i].prev /\ ~vhist[i].result

(* C4: with classifications fed back, a rejected channel is accepted only on  *)
(* the second of two consecutive validations in the rejected state that both  *)
(* saw |d| <= sigma; a validation with |d| > sigma in the rejected state       *)
(* clears the flag, so the validation after it does not accept.               *)
C4_Recovery ==
    /\ \A i \in 1 .. Len(vhist) :
           (~vhist[i].prev /\ vhist[i].result)
               => /\ i > 1
                  /\ ~Big1(vhist[i])
                  /\ ~vhist[i - 1].prev
                  /\ ~Big1(vhist[i - 1])
    /\ \A i \in 1 .. Len(vhist) :
           (~vhist[i].prev /\ Big1(vhist[i]))
               => /\ ~vhist[i].flagOut
                  /\ ~vhist[i].result
                  /\ i < Len(vhist) => ~vhist[i + 1].result

\* a recovery, and a recovery count restarted by a deviation > sigma
C4_Recovered ==
    /\ \E i \in 1 .. Len(vhist) : ~vhist[i].prev /\ vhist[i].result
    /\ \E i \in 2 .. Len(vhist) :
           /\ ~vhist[i].prev /\ Big1(vhist[i])
           /\ ~vhist[i - 1].prev /\ ~Big1(vhist[i - 1])

(* C5: two consecutive reports come from different frames with timestamps   *)
(* t1 < t2 and (t2 - t1) x timeBase >= samplingFrequency.                    *)
C5_ReportSpacing ==
    \A i \in 1 .. (Len(reports) - 1) :
        /\ reports[i].frame < reports[i + 1].frame
        /\ reports[i].time < reports[i + 1].time
        /\ AtLeast(Secs(reports[i + 1].time - reports[i].time, timeBase),
                   samplingFrequency)

C5_TwoReports == Len(reports) >= 2

(* C6: the accumulator is empty right after a frame that emitted a report;  *)
(* every estimate it holds comes from a frame after the last report whose    *)
(* timestamp t has (t - lastSamplingTime) x timeBase < samplingFrequency,    *)
(* so it holds at most as many estimates as frames since the last report.    *)
C6_AccumulatorFresh ==
    LET lastFrame == IF reports = <<>> THEN 0 ELSE Last(reports).frame
    IN /\ Len(bpmTimes) = Len(bpms)
       /\ (reports # <<>> /\ lastFrame = Len(appended)) => bpms = <<>>
       /\ \A i \in 1 .. Len(bpms) :
              Below(Secs(bpmTimes[i] - lastSamplingTime, timeBase),
                    samplingFrequency)
       /\ Len(bpms) <= Len(appended) - lastFrame
       /\ reports # <<>> => lastSamplingTime = Last(reports).time

\* estimates are held after a report was emitted
C6_HeldAfterReport == reports # <<>> /\ Len(bpms) >= 2

(* C7: a report's min and max are the smallest and the largest of the        *)
(* estimates accumulated since the previous report and its mean is their     *)
(* arithmetic average, so min <= mean <= max; 58, 60, 62 in any order give    *)
(* mean 60, min 58, max 62.                                                  *)
C7_Stats(of, mean, min, max) ==
    /\ of # <<>>
    /\ min \in Range(of)
    /\ max \in Range(of)
    /\ \A e \in Range(of) : RatLE(min, e) /\ RatLE(e, max)
    /\ RatMul(mean, <<Len(of), 1>>) = RatSum(of)
    /\ RatLE(min, mean)
    /\ RatLE(mean, max)

C7_ReportStats ==
    /\ \A i \in 1 .. Len(reports) :
           C7_Stats(reports[i].of, reports[i].mean, reports[i].min, reports[i].max)
    /\ \A a, b, c \in {58, 60, 62} :
           {a, b, c} = {58, 60, 62} =>
               LET of == <<<<a, 1>>, <<b, 1>>, <<c, 1>>>>
               IN /\ MeanBpm(of) = <<60, 1>>
                  /\ MinBpm(of) = <<58, 1>>
                  /\ MaxBpm(of) = <<62, 1>>

\* a report over at least three estimates that are not all equal
C7_VariedReport ==
    \E i \in 1 .. Len(reports) :
        /\ Len(reports[i].of) >= 3
        /\ RatLT(reports[i].min, reports[i].mean)
        /\ RatLT(reports[i].mean, reports[i].max)

(* C8: the buffered window (values, timestamps, resync flags) is a           *)
(* contiguous suffix, in append order, of all samples ever appended.          *)
C8_WindowIsSuffix ==
    LET n == Len(appended)
        k == Len(g)
    IN /\ k <= n
       /\ Len(t) = k
       /\ Len(jumps) = k
       /\ \A i \in 1 .. k :
              /\ g[i] = appended[n - k + i].v
              /\ t[i] = appended[n - k + i].t
              /\ jumps[i] = appended[n - k + i].j

\* samples were evicted and the window went on to take another sample
C8_Evicted == g # <<>> /\ Len(g) < Len(appended) /\ ~failed

C10_RatePositive ==
    LET rate == getFps(t, timeBase)
    IN /\ RatLT(<<0, 1>>, timeBase)
       /\ \A i \in 1 .. (Len(t) - 1) : t[i] <= t[i + 1]
       /\ rate.sentinel \/ (rate.q[1] > 0 /\ rate.q[2] > 0)
       /\ t # <<>> => fps = rate
       /\ (t # <<>> /\ Last(t) = t[1]) => fps.sentinel

C10_ZeroElapsed == Len(t) >= 2 /\ Last(t) = t[1]


\* the number of point-estimates made so far: those already reported and those
\* the accumulator holds
RECURSIVE ReportedEstimates(_)
ReportedEstimates(rs) ==
    IF rs = <<>> THEN 0 ELSE Len(Head(rs).of) + ReportedEstimates(Tail(rs))

EstimatesMade == Len(bpms) + ReportedEstimates(reports)

\* count / sampleRate >= 10 for a window of count rows at a rate n/d
CountOverRateAtLeast(count, rate, secs) ==
    /\ ~rate.sentinel
    /\ rate.q[1] > 0
    /\ count * rate.q[2] >= secs * rate.q[1]

(* C11: a frame that appends a sample (a frame with a valid face) adds        *)
(* exactly one point-estimate if, after the append, count / sampleRate >= 10, *)
(* which is the buffered timestamps spanning at least 10 seconds, and none    *)
(* otherwise; no frame adds an estimate while the window spans less.          *)
C11_EstimatePerReadyFrame ==
    [][/\ Len(appended') = Len(appended) + 1 =>
             LET ready == CountOverRateAtLeast(Len(g'), getFps(t', timeBase),
                                               SIGNAL_SIZE)
             IN /\ ready <=> AtLeast(Secs(Last(t') - t'[1], timeBase), SIGNAL_SIZE)
                /\ EstimatesMade' = EstimatesMade + (IF ready THEN 1 ELSE 0)
       /\ EstimatesMade' # EstimatesMade =>
             /\ Len(appended') = Len(appended) + 1
             /\ AtLeast(Secs(Last(t') - t'[1], timeBase), SIGNAL_SIZE)]_vars

\* row i is the only flagged row of the window handed to denoise
OnlyFlagAt(i) ==
    /\ i \in 1 .. Len(dJumps)
    /\ \A k \in 1 .. Len(dJumps) : dJumps[k] <=> k = i

(* C12 as stated: when a step D was added to every sample from row i > 0 on  *)
(* of a signal s and row i alone is flagged, the denoised difference across   *)
(* row i is the slope s[i] - s[i-1] the signal had before the step, and the   *)
(* rows before i come out as they were.  The window handed to denoise is      *)
(* s plus the step, so s is that window less D from row i on.                 *)
C12_StepAbsorbed ==
    dpc = "done" =>
        \A i \in 2 .. Len(dA0), D \in Levels, c \in Channels :
            OnlyFlagAt(i) =>
                LET s(r) == dA0[r][c] - (IF r >= i THEN D ELSE 0)
                IN /\ dB[i][c] - dB[i - 1][c] = s(i) - s(i - 1)
                   /\ \A r \in 1 .. (i - 1) : dB[r][c] = s(r)

(* C12 amended: with row i > 0 alone flagged, the denoised difference across *)
(* row i is 0: the whole first difference of the window across i, step and    *)
(* local slope together, is removed; the rows before i come out as they were. *)
C12_StepRemoved ==
    dpc = "done" =>
        \A i \in 2 .. Len(dA0), c \in Channels :
            OnlyFlagAt(i) =>
                /\ dB[i][c] - dB[i - 1][c] = 0
                /\ \A r \in 1 .. (i - 1) : dB[r][c] = dA0[r][c]

\* a denoised window with one flagged row, not the first and not the last, and
\* a difference across it in both channels
C12_SteppedWindow ==
    /\ dpc = "done"
    /\ \E i \in 2 .. (Len(dA0) - 1) :
           /\ OnlyFlagAt(i)
           /\ \A c \in Channels : dA0[i][c] # dA0[i - 1][c]

\* the window handed to denoise with every channel but c set to zero
ChannelAlone(c) ==
    [r \in 1 .. Len(dA0) |-> [k \in Channels |-> IF k = c THEN dA0[r][k] ELSE 0]]

(* C13: for a window whose flagged rows all lie after the first (any number   *)
(* of flags, adjacent ones included), the denoised window keeps the first     *)
(* row and every first difference at an unflagged row, in each channel by     *)
(* that channel's values alone, and the window passed in is not modified.     *)
C13_DifferencesKept ==
    (dpc = "done" /\ ~dJumps[1]) =>
        /\ Len(dB) = Len(dA0)
        /\ dB[1] = dA0[1]
        /\ \A r \in 2 .. Len(dA0), c \in Channels :
               ~dJumps[r] => dB[r][c] - dB[r - 1][c] = dA0[r][c] - dA0[r - 1][c]
        /\ \A r \in 1 .. Len(dA0), c \in Channels :
               dB[r][c] = denoise(ChannelAlone(c), dJumps,
                                  [k \in Channels |-> 0]).b[r][c]
        /\ dA = dA0

\* a denoised window with two adjacent flagged rows after the first, a
\* difference at an unflagged row behind them, and channels that differ
C13_AdjacentFlags ==
    /\ dpc = "done"
    /\ ~dJumps[1]
    /\ \E r \in 2 .. (Len(dA0) - 2) :
           /\ dJumps[r] /\ dJumps[r + 1] /\ ~dJumps[r + 2]
           /\ dA0[r + 2][1] # dA0[r + 1][1]
           /\ dA0[r][1] # dA0[r - 1][1]
           /\ dA0[r][1] # dA0[r][2]
    /\ dB # dA0

\* the least integer <= the non-negative rational x
Floor(x) == x[1] \div x[2]

(* C14: in every frame that adds a point-estimate from a window of n rows at  *)
(* rate fps, the estimate is p * fps / n * 60 for a bin p with                *)
(* low <= p < high, where low = floor(n * 42 / 60 / fps) and                  *)
(* high = floor(n * 240 / 60 / fps), both clamped to the bins 0 .. n - 1.     *)
C14_BandAsStated ==
    [][EstimatesMade' = EstimatesMade + 1 =>
          LET n == Len(g')
              rate == fps'.q
              estimate == IF Len(reports') > Len(reports)
                          THEN Last(Last(reports').of)
                          ELSE Last(bpms')
              low == Floor(RatDiv(<<n * LOW_BPM, SEC_PER_MIN>>, rate))
              high == Floor(RatDiv(<<n * HIGH_BPM, SEC_PER_MIN>>, rate))
          IN \E q \in 0 .. (n - 1) :
                 /\ low <= q
                 /\ q < high
                 /\ estimate =
                        RatMul(RatDiv(RatMul(<<q, 1>>, rate), <<n, 1>>),
                               <<SEC_PER_MIN, 1>>)]_vars

\* no bin of a window of n rows at the given rate lies inside the band:
\* the rate is unusable, or no q in 0 .. n - 1 has low <= q < high
NoUsableBin(n, rate) ==
    \/ rate.sentinel
    \/ ~CountOverRateAtLeast(n, rate, SIGNAL_SIZE)
    \/ LET low == Floor(RatDiv(<<n * LOW_BPM, SEC_PER_MIN>>, rate.q))
           high == Floor(RatDiv(<<n * HIGH_BPM, SEC_PER_MIN>>, rate.q))
       IN ~\E q \in 0 .. (n - 1) : low <= q /\ q < high

C16_FlagMarksRedetection ==
    [][Len(appended') = Len(appended) + 1 =>
          LET rescanned ==
                  /\ valid
                  /\ AtLeast(Secs(time' - lastScanTime, timeBase), rescanInterval)
              foundAgain == ~valid /\ appended # <<>>
          IN /\ Last(appended').j <=> (rescanned \/ foundAgain)
             /\ Last(jumps') = Last(appended').j
             /\ ~updateFlag']_vars

(* C17: for frames with non-decreasing timestamps, at any rate and with any  *)
(* pattern of resync flags and face loss, every processFrame call returns:    *)
(* no call throws, the smoothing filter is never given a kernel of size 0,    *)
(* and the denoiser is never run on a window whose first row is flagged       *)
(* (which makes it read the row before the first of diff).                    *)
C17_FrameCompletes ==
    /\ \A i \in 1 .. (Len(t) - 1) : t[i] <= t[i + 1]
    /\ ~failed
    /\ smoothing.called => (smoothing.s >= 1 /\ ~jumps[1])

Round(x) == (2 * x[1] + x[2]) \div (2 * x[2])

(* C19: for every ready window the smoothing step applies the blur exactly    *)
(* 3 times with kernel size round(sampleRate / 3), sampleRate being the rate   *)
(* measured over the window as it stands after the frame's append.            *)
C19_KernelRounded ==
    [][Len(appended') = Len(appended) + 1 =>
          LET rate == getFps(t', timeBase)
          IN CountOverRateAtLeast(Len(g'), rate, SIGNAL_SIZE) =>
                 /\ smoothing'.called
                 /\ smoothing'.blurs = 3
                 /\ smoothing'.s = Round(RatDiv(rate.q, <<3, 1>>))]_vars

(* C20: a flag on the first row of the window is ignored by the denoiser: the *)
(* call returns, its output is what the window gives with that flag cleared   *)
(* (offsets only for flagged rows after the first, read from rows of diff),   *)
(* and a window whose only flag is on the first row comes out unchanged.      *)
C20_FirstRowFlagIgnored ==
    (dpc # "idle" /\ dpc # "ready" /\ dJumps[1]) =>
        /\ dpc = "done"
        /\ dB = denoise(dA0, [dJumps EXCEPT ![1] = FALSE],
                        [c \in Channels |-> 0]).b
        /\ OnlyFlagAt(1) => dB = dA0

(* C21: a report is emitted in a frame if and only if the frame has a valid   *)
(* face, its window is ready (count / sampleRate >= 10 after the append) and  *)
(* (time - lastSamplingTime) x timeBase >= samplingFrequency; an emitting      *)
(* frame sets lastSamplingTime to its timestamp, every other frame leaves it.  *)
C21_ReportIffDue ==
    [][LET sampled == valid' /\ Len(appended') = Len(appended) + 1
           ready == CountOverRateAtLeast(Len(g'), getFps(t', timeBase),
                                         SIGNAL_SIZE)
           due == AtLeast(Secs(time' - lastSamplingTime, timeBase),
                          samplingFrequency)
           emitted == Len(reports') = Len(reports) + 1
       IN /\ emitted <=> (sampled /\ ready /\ due)
          /\ emitted => /\ lastSamplingTime' = time'
                        /\ Last(reports').time = time'
          /\ ~emitted => /\ lastSamplingTime' = lastSamplingTime
                         /\ reports' = reports]_vars

(* C22: the timestamp every report carries to the result callback is the     *)
(* timestamp of the frame that emitted the report, the value stored as the     *)
(* new lastSamplingTime.                                                       *)
C22_ReportCarriesFrameTime ==
    /\ \A i \in 1 .. Len(reports) : reports[i].now = reports[i].time
    /\ reports # <<>> => Last(reports).now = lastSamplingTime

(* C23: between processFrame calls the value buffer, the timestamp buffer and *)
(* the resync-flag buffer have the same length, and row k of each comes from   *)
(* one and the same frame.                                                     *)
C23_BuffersAligned ==
    /\ Len(g) = Len(t)
    /\ Len(t) = Len(jumps)
    /\ \A k \in 1 .. Len(g) :
           \E n \in 1 .. Len(appended) :
               appended[n] = [v |-> g[k], t |-> t[k], j |-> jumps[k]]

\* a window that lost rows to eviction and holds flagged and unflagged samples
\* of different timestamps
C23_MixedWindowAfterEviction ==
    /\ ~failed
    /\ Len(g) >= 2
    /\ Len(g) < Len(appended)
    /\ t[1] # Last(t)
    /\ \E k \in 1 .. Len(jumps) : jumps[k]
    /\ \E k \in 1 .. Len(jumps) : ~jumps[k]

(* C24: a processFrame call that ends with no valid face appends and evicts  *)
(* nothing, adds no estimate, emits no report and leaves the sample buffers,   *)
(* the accumulator and lastSamplingTime unchanged; the frame that finds the    *)
(* face again builds its window from the rows buffered before the loss: the    *)
(* new sample follows a suffix of them, all of them when they span at most     *)
(* 10 seconds.                                                                 *)
C24_NoFaceFrameInert ==
    [][/\ ~valid' =>
              UNCHANGED <<g, t, jumps, bpms, bpmTimes, reports,
                          lastSamplingTime, appended>>
       /\ (~valid /\ valid') =>
              LET kept == Len(g') - 1
                  d == Len(g) - kept
              IN /\ d \in 0 .. Len(g)
                 /\ SubSeq(g', 1, kept) = SubSeq(g, d + 1, Len(g))
                 /\ SubSeq(t', 1, kept) = SubSeq(t, d + 1, Len(t))
                 /\ SubSeq(jumps', 1, kept) = SubSeq(jumps, d + 1, Len(jumps))
                 /\ (g # <<>> /\ RatLE(Secs(Last(t) - t[1], timeBase),
                                       <<SIGNAL_SIZE, 1>>)) => d = 0]_vars

\* the face was lost after a report, with samples buffered and estimates held,
\* and a later frame found no face
C24_LostWithBufferedSamples ==
    /\ ~valid
    /\ g # <<>>
    /\ bpms # <<>>
    /\ reports # <<>>
    /\ time > Last(t)

(* C25: whenever the report condition fires the accumulator holds at least   *)
(* one point-estimate: every report is made of a non-empty list, its min the   *)
(* first and its max the last element of that list sorted.                     *)
C25_ReportFromNonEmpty ==
    \A i \in 1 .. Len(reports) :
        LET of == reports[i].of
        IN /\ of # <<>>
           /\ reports[i].min = SortBpms(of)[1]
           /\ reports[i].max = SortBpms(of)[Len(of)]

\* a first report made of the one estimate its own frame added
C25_ReportOfOneEstimate ==
    /\ reports # <<>>
    /\ Len(reports[1].of) = 1
    /\ reports[1].min = reports[1].max

(* C26: the pending flag is never set after two consecutive validations:     *)
(* a validation that starts with the flag set ends with it clear; and a        *)
(* validation's classification differs from the previous classification only   *)
(* if the flag was set when that validation started.                           *)
C26_FlagLastsOneValidation ==
    /\ \A i \in 1 .. Len(vhist) :
           /\ vhist[i].flagIn => ~vhist[i].flagOut
           /\ vhist[i].result # vhist[i].prev => vhist[i].flagIn
    /\ \A i \in 1 .. (Len(vhist) - 1) :
           /\ vhist[i + 1].flagIn = vhist[i].flagOut
           /\ vhist[i + 1].prev = vhist[i].result
           /\ ~(vhist[i].flagOut /\ vhist[i + 1].flagOut)

\* validations that started with the flag set: one changed the classification,
\* one kept it
C26_FlagSpentEachWay ==
    /\ \E i \in 1 .. Len(vhist) :
           vhist[i].flagIn /\ vhist[i].result # vhist[i].prev
    /\ \E i \in 1 .. Len(vhist) :
           vhist[i].flagIn /\ vhist[i].result = vhist[i].prev

(* C27: whenever the multi-channel validate is called with fewer than 10      *)
(* buffered rows it leaves every channel's pending flag unchanged and returns  *)
(* accept for all three channels, whatever earlier calls returned.             *)
C27_ShortBufferAccepts ==
    (lastCall.called /\ lastCall.rows < 10) =>
        /\ flags = lastCall.flagsIn
        /\ \A c \in Columns : lastCall.returned[c]

====
